---- MODULE Spec2Model ----
(***************************************************************************)
(* DENWATUNE (src/app.js): the ToneEngine (one tone at a time, with an     *)
(* optional on/off cadence on the tone's gate) and the sequence player     *)
(* that drives it from timers.                                             *)
(*                                                                         *)
(* Time is kept in the timers: every pending timer carries the             *)
(* milliseconds left until it is due.  The timer list is in creation       *)
(* order; the timer that fires is the first one with the least time left,  *)
(* as the browser runs timers by due time and then by creation.            *)
(*                                                                         *)
(* Object identity: every startToneForKey creates one gain node and one    *)
(* or two oscillators; the model names the three by one tone id.  Ids      *)
(* (tones, timers, playback generations) are the smallest number nothing   *)
(* still refers to, which is what "a new object" / "a new timer id" means  *)
(* to a program that can only compare them for equality.                   *)
(***************************************************************************)
EXTENDS Integers, Sequences, FiniteSets, TLC

\* ------------------------------------------------------------------ bounds
\* user inputs (key events, button clicks) in one run
MaxOps == 3
\* longest text of a single playback in SpecSeq
MaxTextLen == 3
\* milliseconds by which Tick lets time pass between two inputs
TickMs == 50

\* ------------------------------------------------------- program constants
Null == "null"
\* src/app.js:269  slice(0, 128)
MaxSeqLen == 128
\* src/app.js:263  autoDurationMs + 10
HighlightExtraMs == 10
\* src/app.js:18
DefaultVolume == 30
\* src/app.js:361
validKeys == {"0","1","2","3","4","5","6","7","8","9","#","*","/"}

\* values the sliders of the page can hold when the script starts
Durations == {120}
Gaps == {0, 40}

\* ------------------------------------------------------------ the inputs
ManualKeys == {"1", "/"}
Texts == { <<>>, <<"1", "2">>, <<"a", "1">> }
SeqSymbols == {"1", "2", "a"}
SeqTexts == UNION { [1..n -> SeqSymbols] : n \in 0..MaxTextLen }

VARIABLES
  eng,            \* the ToneEngine's fields
  live,           \* backend: the oscillators started and not yet stopped
  gates,          \* backend: the connected per-tone gain nodes, with their gain
  timers,         \* pending setTimeout callbacks, in creation order
  mode, autoDurationMs, gapMs,
  seqTimer, seqBuffer, isSeqPlaying,
  pressedKeys,
  pointerUps,     \* the keys whose pointer-up listener is registered, in order
  log,            \* the notifications so far: key started / key ended / idle
  ev,             \* what the last step did (notifications and observations)
  seqGen,         \* ghost: the playback the latest playSequence began
  seqCancelled,   \* ghost: cancelSequencePlayback ran since the last playSequence
  seqText,        \* ghost: the text of the latest playSequence
  ops             \* user inputs so far

vars == << eng, live, gates, timers, mode, autoDurationMs, gapMs, seqTimer,
           seqBuffer, isSeqPlaying, pressedKeys, pointerUps, log, ev, seqGen, seqCancelled, seqText, ops >>

\* ------------------------------------------------------------- helpers
Min(S) == CHOOSE x \in S : \A y \in S : x <= y

Range(s) == { s[i] : i \in 1..Len(s) }

\* the smallest positive number not in `used`
Fresh(used) == Min({ n \in 1..(Cardinality(used) + 1) : n \notin used })

\* the mutable world a handler runs in; `out` collects what the handler did
Cur ==
  [ eng |-> eng, live |-> live, gates |-> gates, timers |-> timers,
    seqTimer |-> seqTimer, seqBuffer |-> seqBuffer, isSeqPlaying |-> isSeqPlaying,
    out |-> <<>> ]

Emit(W, e) == [W EXCEPT !.out = Append(@, e)]

Note(n, key, src) == [n |-> n, key |-> key, src |-> src]

\* ------------------------------------------------------------- timers
TimerIds(W) == { t.id : t \in Range(W.timers) } \cup {W.seqTimer, W.eng.cadenceTimeoutId}

\* window.setTimeout(callback, delay): the callback is (kind, key, isOn, onMs,
\* offMs); tone and gen are ghosts naming the tone the callback was scheduled
\* for and the playback it belongs to.
setTimeout(W, kind, delay, key, tone, isOn, ms, gen) ==
  LET id == Fresh(TimerIds(W)) IN
  [ W EXCEPT !.timers = Append(@, [ id |-> id, left |-> delay, kind |-> kind, key |-> key,
                                    tone |-> tone, isOn |-> isOn, onMs |-> ms[1],
                                    offMs |-> ms[2], gen |-> gen ]) ]

LastTimerId(W) == W.timers[Len(W.timers)].id

\* clearTimeout(id): a pending timer with this id never fires; any other id is ignored
clearTimeout(W, id) ==
  [ W EXCEPT !.timers = SelectSeq(@, LAMBDA t : t.id # id) ]

\* ------------------------------------------------------------- ToneEngine
NoSpec == <<>>
NoCadence == <<>>

dtmfLow ==
  [ k \in {"1","2","3","4","5","6","7","8","9","*","0","#"} |->
      CASE k \in {"1","2","3"} -> 697
        [] k \in {"4","5","6"} -> 770
        [] k \in {"7","8","9"} -> 852
        [] OTHER -> 941 ]

dtmfHigh ==
  [ k \in {"1","2","3","4","5","6","7","8","9","*","0","#"} |->
      CASE k \in {"1","4","7","*"} -> 1209
        [] k \in {"2","5","8","0"} -> 1336
        [] OTHER -> 1477 ]

\* tbl[key] of a JavaScript object: undefined (falsy, here 0) for a missing key
Lookup(tbl, key) == IF key \in DOMAIN tbl THEN tbl[key] ELSE 0

\* a lookup whose busy tone is marked continuous
getFrequenciesForKey_BusyContinuous(key, dialPreset) ==
  IF key = "*"
  THEN IF dialPreset = "jp"
       THEN << [a |-> 400, b |-> 0, isContinuous |-> TRUE, cadence |-> NoCadence] >>
       ELSE << [a |-> 350, b |-> 440, isContinuous |-> TRUE, cadence |-> NoCadence] >>
  ELSE IF key = "/"
  THEN << [a |-> 480, b |-> 620, isContinuous |-> TRUE,
           cadence |-> << [onMs |-> 250, offMs |-> 250] >>] >>
  ELSE LET low == Lookup(dtmfLow, key)
           high == Lookup(dtmfHigh, key)
       IN IF low = 0 \/ high = 0
          THEN NoSpec
          ELSE << [a |-> low, b |-> high, isContinuous |-> FALSE, cadence |-> NoCadence] >>

\* a lookup that consults the DTMF tables before the special keys
getFrequenciesForKey_TableFirst(key, dialPreset) ==
  LET low == Lookup(dtmfLow, key)
      high == Lookup(dtmfHigh, key)
  IN IF low # 0 /\ high # 0
     THEN << [a |-> low, b |-> high, isContinuous |-> FALSE, cadence |-> NoCadence] >>
     ELSE IF key = "*"
     THEN IF dialPreset = "jp"
          THEN << [a |-> 400, b |-> 0, isContinuous |-> TRUE, cadence |-> NoCadence] >>
          ELSE << [a |-> 350, b |-> 440, isContinuous |-> TRUE, cadence |-> NoCadence] >>
     ELSE IF key = "/"
     THEN << [a |-> 480, b |-> 620, isContinuous |-> FALSE,
              cadence |-> << [onMs |-> 250, offMs |-> 250] >>] >>
     ELSE NoSpec

\* a lookup that returns the high group as a and the low group as b
getFrequenciesForKey_Swapped(key, dialPreset) ==
  IF key = "*"
  THEN IF dialPreset = "jp"
       THEN << [a |-> 400, b |-> 0, isContinuous |-> TRUE, cadence |-> NoCadence] >>
       ELSE << [a |-> 350, b |-> 440, isContinuous |-> TRUE, cadence |-> NoCadence] >>
  ELSE IF key = "/"
  THEN << [a |-> 480, b |-> 620, isContinuous |-> FALSE,
           cadence |-> << [onMs |-> 250, offMs |-> 250] >>] >>
  ELSE LET low == Lookup(dtmfLow, key)
           high == Lookup(dtmfHigh, key)
       IN IF low = 0 \/ high = 0
          THEN NoSpec
          ELSE << [a |-> high, b |-> low, isContinuous |-> FALSE, cadence |-> NoCadence] >>

\* <<spec>> or NoSpec (null); b = 0 is "no second oscillator" (null)
getFrequenciesForKey(key, dialPreset) ==
  IF key = "*"
  THEN IF dialPreset = "jp"
       THEN << [a |-> 400, b |-> 0, isContinuous |-> TRUE, cadence |-> NoCadence] >>
       ELSE << [a |-> 350, b |-> 440, isContinuous |-> TRUE, cadence |-> NoCadence] >>
  ELSE IF key = "/"
  THEN << [a |-> 480, b |-> 620, isContinuous |-> FALSE,
           cadence |-> << [onMs |-> 250, offMs |-> 250] >>] >>
  ELSE LET low == Lookup(dtmfLow, key)
           high == Lookup(dtmfHigh, key)
       IN IF low = 0 \/ high = 0
          THEN NoSpec
          ELSE << [a |-> low, b |-> high, isContinuous |-> FALSE, cadence |-> NoCadence] >>

\* constructor: no context, nothing playing
NewEngine ==
  [ audioContext |-> FALSE, masterGain |-> <<>>, toneGain |-> 0, oscA |-> 0, oscB |-> 0,
    currentKey |-> Null, isStarted |-> FALSE, masterVolume |-> DefaultVolume,
    cadenceTimeoutId |-> 0, dialPreset |-> "us" ]

\* the context and the master gain are created on first use
ensureContext(W) ==
  IF ~W.eng.audioContext
  THEN [W EXCEPT !.eng.audioContext = TRUE, !.eng.masterGain = << W.eng.masterVolume >>]
  ELSE W

\* a stopTone that returns as soon as it has cancelled a pending cadence
stopTone_ReturnAfterCadence(W) ==
  IF ~W.eng.isStarted THEN W
  ELSE IF W.eng.cadenceTimeoutId # 0
  THEN [ clearTimeout(W, W.eng.cadenceTimeoutId) EXCEPT !.eng.cadenceTimeoutId = 0 ]
  ELSE [ W EXCEPT
           !.live = { o \in @ : ~(  (W.eng.oscA # 0 /\ o.tone = W.eng.oscA /\ o.osc = "A")
                                 \/ (W.eng.oscB # 0 /\ o.tone = W.eng.oscB /\ o.osc = "B")) },
           !.gates = { g \in @ : ~(W.eng.toneGain # 0 /\ g.tone = W.eng.toneGain) },
           !.eng.oscA = 0, !.eng.oscB = 0, !.eng.toneGain = 0,
           !.eng.isStarted = FALSE, !.eng.currentKey = Null ]

\* a stopTone that drops the cadence handle without clearing the timer
stopTone_NoClearTimeout(W) ==
  IF ~W.eng.isStarted THEN W
  ELSE [ W EXCEPT
           !.live = { o \in @ : ~(  (W.eng.oscA # 0 /\ o.tone = W.eng.oscA /\ o.osc = "A")
                                 \/ (W.eng.oscB # 0 /\ o.tone = W.eng.oscB /\ o.osc = "B")) },
           !.gates = { g \in @ : ~(W.eng.toneGain # 0 /\ g.tone = W.eng.toneGain) },
           !.eng.oscA = 0, !.eng.oscB = 0, !.eng.toneGain = 0,
           !.eng.cadenceTimeoutId = 0,
           !.eng.isStarted = FALSE, !.eng.currentKey = Null ]

\* a stopTone that forgets the cadence timer and the key
stopTone_KeepsCadence(W) ==
  IF ~W.eng.isStarted THEN W
  ELSE [ W EXCEPT
           !.live = { o \in @ : ~(  (W.eng.oscA # 0 /\ o.tone = W.eng.oscA /\ o.osc = "A")
                                 \/ (W.eng.oscB # 0 /\ o.tone = W.eng.oscB /\ o.osc = "B")) },
           !.gates = { g \in @ : ~(W.eng.toneGain # 0 /\ g.tone = W.eng.toneGain) },
           !.eng.oscA = 0, !.eng.oscB = 0, !.eng.toneGain = 0,
           !.eng.isStarted = FALSE ]

stopTone(W) ==
  IF ~W.eng.isStarted THEN W
  ELSE LET W1 == IF W.eng.cadenceTimeoutId # 0
                 THEN [ clearTimeout(W, W.eng.cadenceTimeoutId) EXCEPT !.eng.cadenceTimeoutId = 0 ]
                 ELSE W
       IN [ W1 EXCEPT
              \* oscA.stop(); oscA.disconnect(); the same for oscB and toneGain
              !.live = { o \in @ : ~(  (W.eng.oscA # 0 /\ o.tone = W.eng.oscA /\ o.osc = "A")
                                    \/ (W.eng.oscB # 0 /\ o.tone = W.eng.oscB /\ o.osc = "B")) },
              !.gates = { g \in @ : ~(W.eng.toneGain # 0 /\ g.tone = W.eng.toneGain) },
              !.eng.oscA = 0, !.eng.oscB = 0, !.eng.toneGain = 0,
              !.eng.isStarted = FALSE, !.eng.currentKey = Null ]

\* a toggle that schedules itself with the same phase
toggle_SamePhase(W, isOn, onMs, offMs) ==
  IF ~W.eng.audioContext \/ W.eng.toneGain = 0 THEN W
  ELSE LET W1 == [ W EXCEPT !.gates = { IF g.tone = W.eng.toneGain
                                         THEN [g EXCEPT !.value = IF isOn THEN 1 ELSE 0]
                                         ELSE g : g \in @ } ]
           W2 == setTimeout(W1, "cadence", IF isOn THEN onMs ELSE offMs, Null,
                            W.eng.toneGain, isOn, <<onMs, offMs>>, 0)
       IN [ W2 EXCEPT !.eng.cadenceTimeoutId = LastTimerId(W2) ]

\* the body of the cadence closure: toggle(isOn) with the captured onMs, offMs
toggle(W, isOn, onMs, offMs) ==
  IF ~W.eng.audioContext \/ W.eng.toneGain = 0 THEN W
  ELSE LET W1 == [ W EXCEPT !.gates = { IF g.tone = W.eng.toneGain
                                         THEN [g EXCEPT !.value = IF isOn THEN 1 ELSE 0]
                                         ELSE g : g \in @ } ]
           W2 == setTimeout(W1, "cadence", IF isOn THEN onMs ELSE offMs, Null,
                            W.eng.toneGain, ~isOn, <<onMs, offMs>>, 0)
       IN [ W2 EXCEPT !.eng.cadenceTimeoutId = LastTimerId(W2) ]

\* the tones something still refers to
TonesInUse(W) ==
  { o.tone : o \in W.live } \cup { g.tone : g \in W.gates }
    \cup { t.tone : t \in Range(W.timers) } \cup { W.eng.oscA, W.eng.oscB, W.eng.toneGain }

\* the new gain node and oscillators of `spec`, wired and started
Allocate(W, key, spec) ==
  LET tone == Fresh(TonesInUse(W)) IN
  [ W EXCEPT
      !.gates = @ \cup { [tone |-> tone, value |-> 1] },
      !.live = @ \cup { [tone |-> tone, osc |-> "A", freq |-> spec.a] }
                 \cup ( IF spec.b # 0 THEN { [tone |-> tone, osc |-> "B", freq |-> spec.b] }
                        ELSE {} ),
      !.eng.toneGain = tone,
      !.eng.oscA = tone,
      !.eng.oscB = IF spec.b # 0 THEN tone ELSE @,
      !.eng.currentKey = key,
      !.eng.isStarted = TRUE ]

\* a startToneForKey that stops the previous tone before it looks the key up
startToneForKey_StopsFirst(W, key) ==
  LET W0 == stopTone(W)
      found == getFrequenciesForKey(key, W.eng.dialPreset) IN
  IF found = NoSpec THEN W0
  ELSE LET spec == found[1]
           W3 == Allocate(ensureContext(W0), key, spec)
       IN IF spec.cadence # NoCadence
          THEN toggle(W3, TRUE, spec.cadence[1].onMs, spec.cadence[1].offMs)
          ELSE W3

\* a startToneForKey that does not stop the previous tone
startToneForKey_NoTeardown(W, key) ==
  LET found == getFrequenciesForKey(key, W.eng.dialPreset) IN
  IF found = NoSpec THEN W
  ELSE LET spec == found[1]
           W3 == Allocate(ensureContext(W), key, spec)
       IN IF spec.cadence # NoCadence
          THEN toggle(W3, TRUE, spec.cadence[1].onMs, spec.cadence[1].offMs)
          ELSE W3

startToneForKey(W, key) ==
  LET found == getFrequenciesForKey(key, W.eng.dialPreset) IN
  IF found = NoSpec THEN W
  ELSE LET spec == found[1]
           W1 == ensureContext(W)
           W2 == stopTone(W1)
           W3 == Allocate(W2, key, spec)
       IN IF spec.cadence # NoCadence
          THEN toggle(W3, TRUE, spec.cadence[1].onMs, spec.cadence[1].offMs)
          ELSE W3


\* a setVolume that restarts the audio path: the tone is stopped
setVolume_StopsTone(W, volume) ==
  LET W1 == stopTone(W) IN
  [ W1 EXCEPT !.eng.masterVolume = volume,
              !.eng.masterGain = IF @ # <<>> THEN << volume >> ELSE @ ]

\* volume in percent
setVolume(W, volume) ==
  [ W EXCEPT !.eng.masterVolume = volume,
             !.eng.masterGain = IF @ # <<>> THEN << volume >> ELSE @ ]

setDialPreset(W, preset) == [ W EXCEPT !.eng.dialPreset = preset ]

\* ------------------------------------------------------------- sequence player
NoMs == <<0, 0>>

\* a cancel that also stops the tone
cancelSequencePlayback_StopsTone(W) ==
  LET W1 == IF W.seqTimer # 0
            THEN [ clearTimeout(W, W.seqTimer) EXCEPT !.seqTimer = 0 ]
            ELSE W
  IN stopTone([ W1 EXCEPT !.isSeqPlaying = FALSE ])

cancelSequencePlayback(W) ==
  LET W1 == IF W.seqTimer # 0
            THEN [ clearTimeout(W, W.seqTimer) EXCEPT !.seqTimer = 0 ]
            ELSE W
  IN [ W1 EXCEPT !.isSeqPlaying = FALSE ]

\* playOnce for key k, with the notification before it and the highlight timer
\* after it (lines 242-263)
PlayKey(W, k, gen) ==
  LET W1 == Emit(W, Note("keyStarted", k, "seq"))
      W2 == startToneForKey(W1, k)
      W3 == setTimeout(W2, "seqStop", autoDurationMs, k, W2.eng.oscA, FALSE, NoMs, gen)
  IN setTimeout(W3, "keyEnded", autoDurationMs + HighlightExtraMs, k, 0, FALSE, NoMs, gen)

RECURSIVE scheduleNextFromBuffer_NoGuard(_, _)
\* a drain step that does not look at isSeqPlaying
scheduleNextFromBuffer_NoGuard(W, gen) ==
  IF Len(W.seqBuffer) = 0
  THEN Emit([ W EXCEPT !.isSeqPlaying = FALSE ], Note("idle", Null, "seq"))
  ELSE LET k == Head(W.seqBuffer)
           W1 == Emit([ W EXCEPT !.seqBuffer = Tail(@) ], Note("popped", k, "step"))
       IN IF k \notin validKeys
          THEN scheduleNextFromBuffer_NoGuard(W1, gen)
          ELSE PlayKey(W1, k, gen)

RECURSIVE scheduleNextFromBuffer_NeverIdle(_, _)
\* a drain step that does not clear the flag when the queue is exhausted
scheduleNextFromBuffer_NeverIdle(W, gen) ==
  IF ~W.isSeqPlaying THEN W
  ELSE IF Len(W.seqBuffer) = 0
  THEN Emit(W, Note("idle", Null, "seq"))
  ELSE LET k == Head(W.seqBuffer)
           W1 == Emit([ W EXCEPT !.seqBuffer = Tail(@) ], Note("popped", k, "step"))
       IN IF k \notin validKeys
          THEN scheduleNextFromBuffer_NeverIdle(W1, gen)
          ELSE PlayKey(W1, k, gen)

RECURSIVE scheduleNextFromBuffer(_, _)
\* one drain step; gen is the ghost name of the playback whose chain runs it.
\* Every invocation that shifts the queue notes the symbol it popped.
\* (The test `!k` of line 237 never holds: split('') yields one-symbol strings.)
scheduleNextFromBuffer(W, gen) ==
  IF ~W.isSeqPlaying THEN W
  ELSE IF Len(W.seqBuffer) = 0
  THEN Emit([ W EXCEPT !.isSeqPlaying = FALSE ], Note("idle", Null, "seq"))
  ELSE LET k == Head(W.seqBuffer)
           W1 == Emit([ W EXCEPT !.seqBuffer = Tail(@) ], Note("popped", k, "step"))
       IN IF k \notin validKeys
          THEN scheduleNextFromBuffer(W1, gen)
          ELSE PlayKey(W1, k, gen)

\* the playbacks something still refers to
GensInUse(W) == { t.gen : t \in Range(W.timers) } \cup {seqGen}

\* input.slice(0, 128).split('')
Truncate(text) == SubSeq(text, 1, IF Len(text) < MaxSeqLen THEN Len(text) ELSE MaxSeqLen)

startSequencePlaybackFromText(W, text, gen) ==
  LET W1 == [ W EXCEPT !.seqBuffer = Truncate(text) ] IN
  IF Len(W1.seqBuffer) = 0 THEN W1
  ELSE LET W2 == cancelSequencePlayback(W1)
           W3 == [ W2 EXCEPT !.isSeqPlaying = TRUE ]
       IN scheduleNextFromBuffer(W3, gen)

\* the callback of line 246: stop the tone if the key still matches, then
\* schedule the next drain step
SeqStopCallback(W, t) ==
  LET W1 == IF W.eng.currentKey = t.key
            THEN Emit(stopTone(W), Note("toneStopped", t.key, "seq"))
            ELSE W
      W2 == setTimeout(W1, "seqDrain", gapMs, Null, 0, FALSE, NoMs, t.gen)
  IN [ W2 EXCEPT !.seqTimer = LastTimerId(W2) ]

\* ------------------------------------------------------------- manual keys
\* the callback of line 320
AutoStopCallback(W, t) ==
  IF W.eng.currentKey = t.key
  THEN Emit(stopTone(W), Note("toneStopped", t.key, "manual"))
  ELSE W

triggerKeyDown(W, k) ==
  LET W1 == Emit(W, Note("keyStarted", k, "manual"))
      W2 == startToneForKey(W1, k)
  IN IF mode = "hold"
     THEN W2
     ELSE setTimeout(W2, "autoStop", autoDurationMs, k, W2.eng.oscA, FALSE, NoMs, 0)

triggerKeyUp(W, k) ==
  IF mode = "hold" /\ W.eng.currentKey = k
  THEN Emit(stopTone(W), Note("toneStopped", k, "manual"))
  ELSE W

\* ------------------------------------------------------------- the machine
NoTimer == [kind |-> "none", key |-> Null, tone |-> 0, gen |-> 0]

SeqNotes(out) == SelectSeq(out, LAMBDA e : e.src = "seq" /\ e.n # "toneStopped")

\* the handler `op` (run for timer t, if any) took the world from Cur to W
Commit(W, op, t) ==
  /\ eng' = W.eng
  /\ live' = W.live
  /\ gates' = W.gates
  /\ timers' = W.timers
  /\ seqTimer' = W.seqTimer
  /\ seqBuffer' = W.seqBuffer
  /\ isSeqPlaying' = W.isSeqPlaying
  /\ log' = log \o SeqNotes(W.out)
  /\ ev' = [ op |-> op, kind |-> t.kind, key |-> t.key, tone |-> t.tone, gen |-> t.gen,
             out |-> W.out, wasPlaying |-> isSeqPlaying, wasTone |-> eng.oscA,
             wasKey |-> eng.currentKey ]

\* everything but the engine, after the script has run
InitApp ==
  /\ live = {}
  /\ gates = {}
  /\ timers = <<>>
  /\ mode = "hold"
  /\ autoDurationMs \in Durations
  /\ gapMs \in Gaps
  /\ seqTimer = 0
  /\ seqBuffer = <<>>
  /\ isSeqPlaying = FALSE
  /\ pressedKeys = {}
  /\ pointerUps = <<>>
  /\ log = <<>>
  /\ ev = [ op |-> "init", kind |-> "none", key |-> Null, tone |-> 0, gen |-> 0,
            out |-> <<>>, wasPlaying |-> FALSE, wasTone |-> 0, wasKey |-> Null ]
  /\ seqGen = 0
  /\ seqCancelled = FALSE
  /\ seqText = <<>>
  /\ ops = 0

Init ==
  /\ eng = NewEngine
  /\ InitApp

\* --- timers
\* the timer that is due next: the earliest created of those with the least time left
DueIndex == Min({ i \in 1..Len(timers) : \A j \in 1..Len(timers) : timers[i].left <= timers[j].left })

Due == timers[DueIndex]

\* the world when the due timer's callback starts: the timer is gone and its
\* time has passed for the others
AtDue ==
  [ Cur EXCEPT !.timers =
      [ j \in 1..(Len(timers) - 1) |->
          LET u == timers[IF j < DueIndex THEN j ELSE j + 1]
          IN [u EXCEPT !.left = @ - Due.left] ] ]

FireCadence ==
  /\ timers # <<>> /\ Due.kind = "cadence"
  /\ Commit(toggle(AtDue, Due.isOn, Due.onMs, Due.offMs), "cadence", Due)
  /\ UNCHANGED << mode, autoDurationMs, gapMs, pointerUps, pressedKeys, seqGen, seqCancelled, seqText, ops >>

FireSeqStop ==
  /\ timers # <<>> /\ Due.kind = "seqStop"
  /\ Commit(SeqStopCallback(AtDue, Due), "seqStop", Due)
  /\ UNCHANGED << mode, autoDurationMs, gapMs, pointerUps, pressedKeys, seqGen, seqCancelled, seqText, ops >>

FireSeqDrain ==
  /\ timers # <<>> /\ Due.kind = "seqDrain"
  /\ Commit(scheduleNextFromBuffer(AtDue, Due.gen), "seqDrain", Due)
  /\ UNCHANGED << mode, autoDurationMs, gapMs, pointerUps, pressedKeys, seqGen, seqCancelled, seqText, ops >>

\* line 263: the highlight of the key is removed
FireKeyEnded ==
  /\ timers # <<>> /\ Due.kind = "keyEnded"
  /\ Commit(Emit(AtDue, Note("keyEnded", Due.key, "seq")), "keyEnded", Due)
  /\ UNCHANGED << mode, autoDurationMs, gapMs, pointerUps, pressedKeys, seqGen, seqCancelled, seqText, ops >>

FireAutoStop ==
  /\ timers # <<>> /\ Due.kind = "autoStop"
  /\ Commit(AutoStopCallback(AtDue, Due), "autoStop", Due)
  /\ UNCHANGED << mode, autoDurationMs, gapMs, pointerUps, pressedKeys, seqGen, seqCancelled, seqText, ops >>

\* TickMs pass and no timer is due before that
Tick ==
  /\ timers # <<>>
  /\ \A i \in 1..Len(timers) : timers[i].left >= TickMs
  /\ Commit([ Cur EXCEPT !.timers = [ i \in 1..Len(timers) |-> [timers[i] EXCEPT !.left = @ - TickMs] ] ],
            "tick", NoTimer)
  /\ UNCHANGED << mode, autoDurationMs, gapMs, pointerUps, pressedKeys, seqGen, seqCancelled, seqText, ops >>

\* --- user input
\* the keydown listener (lines 364-374), outside an editable element
KeyDown(k) ==
  /\ ops < MaxOps
  /\ k \in validKeys
  /\ LET W1 == IF isSeqPlaying THEN cancelSequencePlayback(Cur) ELSE Cur IN
     IF k \in pressedKeys /\ mode = "hold"
     THEN /\ Commit(W1, "keydown", NoTimer)
          /\ pressedKeys' = pressedKeys
     ELSE /\ Commit(triggerKeyDown(W1, k), "keydown", NoTimer)
          /\ pressedKeys' = pressedKeys \cup {k}
  /\ seqCancelled' = (seqCancelled \/ isSeqPlaying)
  /\ ops' = ops + 1
  /\ UNCHANGED << mode, autoDurationMs, gapMs, pointerUps, seqGen, seqText >>

\* the keyup listener (lines 376-383)
KeyUp(k) ==
  /\ ops < MaxOps
  /\ k \in validKeys
  /\ pressedKeys' = pressedKeys \ {k}
  /\ Commit(triggerKeyUp(Cur, k), "keyup", NoTimer)
  /\ ops' = ops + 1
  /\ UNCHANGED << mode, autoDurationMs, gapMs, pointerUps, seqGen, seqCancelled, seqText >>

\* the mode radio buttons (lines 192-199)
SetMode(m) ==
  /\ ops < MaxOps
  /\ m # mode
  /\ mode' = m
  /\ Commit(Cur, "mode", NoTimer)
  /\ ops' = ops + 1
  /\ UNCHANGED << autoDurationMs, gapMs, pointerUps, pressedKeys, seqGen, seqCancelled, seqText >>

\* the play button (lines 386-390) with `text` in the input field
PlaySequence(text) ==
  /\ ops < MaxOps
  /\ LET gen == Fresh(GensInUse(Cur)) IN
     /\ Commit(startSequencePlaybackFromText(Cur, text, gen), "play", NoTimer)
     /\ seqGen' = IF Len(text) = 0 THEN seqGen ELSE gen
  /\ seqCancelled' = IF Len(text) = 0 THEN seqCancelled ELSE FALSE
  /\ seqText' = IF Len(text) = 0 THEN seqText ELSE text
  /\ ops' = ops + 1
  /\ UNCHANGED << mode, autoDurationMs, gapMs, pointerUps, pressedKeys >>

\* the stop button (lines 391-396)
CancelSequence ==
  /\ ops < MaxOps
  /\ Commit(cancelSequencePlayback(Cur), "cancel", NoTimer)
  /\ seqCancelled' = TRUE
  /\ ops' = ops + 1
  /\ UNCHANGED << mode, autoDurationMs, gapMs, pointerUps, pressedKeys, seqGen, seqText >>

\* the volume slider (lines 208-211)
SetVolume(v) ==
  /\ ops < MaxOps
  /\ Commit(setVolume(Cur, v), "volume", NoTimer)
  /\ ops' = ops + 1
  /\ UNCHANGED << mode, autoDurationMs, gapMs, pointerUps, pressedKeys, seqGen, seqCancelled, seqText >>

\* the dial preset select (lines 297-304): a playing dial tone is restarted
SetDialPreset(p) ==
  /\ ops < MaxOps
  /\ LET W1 == setDialPreset(Cur, p) IN
     Commit(IF W1.eng.currentKey = "*" /\ W1.eng.isStarted THEN startToneForKey(W1, "*") ELSE W1,
            "preset", NoTimer)
  /\ ops' = ops + 1
  /\ UNCHANGED << mode, autoDurationMs, gapMs, pointerUps, pressedKeys, seqGen, seqCancelled, seqText >>

\* pointerdown on an element of the keypad that carries data-key = k (lines 342-358)
PointerDown(k) ==
  /\ ops < MaxOps
  /\ Commit(triggerKeyDown(Cur, k), "pointerdown", [NoTimer EXCEPT !.key = k])
  /\ pointerUps' = Append(pointerUps, k)
  /\ ops' = ops + 1
  /\ UNCHANGED << mode, autoDurationMs, gapMs, pressedKeys, seqGen, seqCancelled, seqText >>

RECURSIVE ReleaseAll(_, _)
\* every registered `up` listener runs, in the order of registration
ReleaseAll(W, keys) ==
  IF keys = <<>> THEN W ELSE ReleaseAll(triggerKeyUp(W, Head(keys)), Tail(keys))

\* pointerup / pointercancel / pointerleave on the window (lines 349-357)
PointerUp ==
  /\ ops < MaxOps
  /\ pointerUps # <<>>
  /\ Commit(ReleaseAll(Cur, pointerUps), "pointerup", NoTimer)
  /\ pointerUps' = <<>>
  /\ ops' = ops + 1
  /\ UNCHANGED << mode, autoDurationMs, gapMs, pressedKeys, seqGen, seqCancelled, seqText >>

Next ==
  \/ FireCadence
  \/ FireSeqStop
  \/ FireSeqDrain
  \/ FireKeyEnded
  \/ FireAutoStop
  \/ Tick
  \/ \E k \in ManualKeys : KeyDown(k)
  \/ \E k \in ManualKeys : KeyUp(k)
  \/ \E m \in {"hold", "auto"} : SetMode(m)
  \/ \E text \in Texts : PlaySequence(text)
  \/ CancelSequence

Spec == Init /\ [][Next]_vars

\* --- one playback, run to completion with no other input
PlayOnce(text) ==
  /\ ops = 0
  /\ PlaySequence(text)

NextSeq ==
  \/ \E text \in SeqTexts : PlayOnce(text)
  \/ FireSeqStop
  \/ FireSeqDrain
  \/ FireKeyEnded

SpecSeq == Init /\ [][NextSeq]_vars

\* the browser runs every pending timer: a callback that is due runs. For the
\* drain callback weak fairness is written out, with the callback's guard (a
\* drain timer is the due one) in the place of its enabledness; the callback
\* always removes its timer, so the two are the same.
DrainDue == timers # <<>> /\ Due.kind = "seqDrain"

SpecSeqFair ==
  /\ Init /\ [][NextSeq]_vars
  /\ WF_vars(FireSeqStop)
  /\ WF_vars(FireKeyEnded)
  /\ ([]<>(~DrainDue) \/ []<><<FireSeqDrain>>_vars)

\* --- the sequence player alone: the two buttons and the timer callbacks
NextPlayer ==
  \/ \E text \in Texts : PlaySequence(text)
  \/ CancelSequence
  \/ FireSeqStop
  \/ FireSeqDrain
  \/ FireKeyEnded
  \/ Tick

SpecPlayer == Init /\ [][NextPlayer]_vars


\* --- the engine under the keys, the pointer, the volume and the preset
EngineKeys == {"1", "9", "*", "/"}
PointerKeys == {"a", "#"}
Volumes == {0, 100}
Presets == {"us", "jp"}

\* line 296: the preset select sets the preset when the script starts
InitEngine ==
  \E p \in Presets :
    /\ eng = setDialPreset([eng |-> NewEngine], p).eng
    /\ InitApp

NextEngine ==
  \/ FireCadence
  \/ Tick
  \/ \E k \in EngineKeys : KeyDown(k)
  \/ \E k \in EngineKeys : KeyUp(k)
  \/ \E k \in PointerKeys : PointerDown(k)
  \/ PointerUp
  \/ \E v \in Volumes : SetVolume(v)
  \/ \E p \in Presets : SetDialPreset(p)

SpecEngine == InitEngine /\ [][NextEngine]_vars

\* ------------------------------------------------------------- properties
Did(n, src) == \E i \in 1..Len(ev.out) : ev.out[i].n = n /\ ev.out[i].src = src

SeqTimers == { t \in Range(timers) : t.kind \in {"seqStop", "seqDrain"} }

\* C1: at most one tone's oscillators (and at most one gate) are alive in any
\* reachable state, whoever issued the starts and stops.
C1_AtMostOneToneAlive ==
  /\ Cardinality({ o.tone : o \in live }) <= 1
  /\ Cardinality(gates) <= 1
  /\ \A o \in live : o.tone = eng.oscA

\* a tone was started while another one was sounding
C1_Witness ==
  /\ ev.wasTone # 0
  /\ Did("keyStarted", "manual") \/ Did("keyStarted", "seq")
  /\ live # {}

\* C2: not started implies no current key, and no current key implies no
\* cadence handle (and no cadence timer pending).
C2_StateChain ==
  /\ ~eng.isStarted => eng.currentKey = Null
  /\ eng.currentKey = Null =>
       /\ eng.cadenceTimeoutId = 0
       /\ \A t \in Range(timers) : t.kind # "cadence"

\* the cadenced tone has just been stopped
C2_Witness ==
  /\ \E i \in 1..Len(ev.out) : ev.out[i].n = "toneStopped" /\ ev.out[i].key = "/"
  /\ ~eng.isStarted

\* C3: stopTone changes nothing when no tone is playing, and stopTone twice
\* leaves what stopTone once leaves.
C3_StopIdempotent ==
  /\ stopTone(stopTone(Cur)) = stopTone(Cur)
  /\ ~eng.isStarted => stopTone(Cur) = Cur

\* a tone with a pending cadence is playing: the first stop acts, the second must not
C3_Witness ==
  /\ eng.isStarted
  /\ eng.cadenceTimeoutId # 0
  /\ stopTone(Cur) # Cur

\* C4: after cancelSequencePlayback and until the next playSequence, no step
\* starts a key of the sequence.
C4_NoStartAfterCancel ==
  seqCancelled => ~Did("keyStarted", "seq")

\* a drain callback of the cancelled playback ran with keys still in the queue
C4_Witness ==
  /\ seqCancelled
  /\ ev.op = "seqDrain"
  /\ \E i \in 1..Len(seqBuffer) : seqBuffer[i] \in validKeys

\* --- C5
Recognized(text) == SelectSeq(text, LAMBDA k : k \in validKeys)

KeysOf(n) ==
  LET es == SelectSeq(log, LAMBDA e : e.n = n)
  IN [ i \in 1..Len(es) |-> es[i].key ]

\* the playback has run to completion: nothing is scheduled any more
SeqDone == seqText # <<>> /\ timers = <<>>

\* the keys are started in order, unrecognized symbols start nothing, and every
\* started key is ended once
C5_KeysInOrder ==
  SeqDone =>
    /\ KeysOf("keyStarted") = Recognized(seqText)
    /\ KeysOf("keyEnded") = Recognized(seqText)
    /\ Len(KeysOf("idle")) = 1

\* C5: one playSequence of a non-empty text, run to completion: the recognized
\* keys are started in order, each is started and ended once, and idle is
\* reported once, after every key's notifications.
C5_SequenceRun ==
  /\ C5_KeysInOrder
  /\ SeqDone => log[Len(log)].n = "idle"

\* --- C6
\* C6: a stop callback (of a sequence key or of an auto-mode key) stops a tone
\* only if the tone it was scheduled for is still the active one.
C6_StaleStopAbandons ==
  ( ev.op \in {"seqStop", "autoStop"} /\ (Did("toneStopped", "seq") \/ Did("toneStopped", "manual")) )
    => ev.tone = ev.wasTone

\* --- C7
\* C7: once playSequence has replaced an earlier playback, only the new
\* playback's timers are left, and only its chain performs drain steps.
C7_OneDrainChain ==
  /\ isSeqPlaying => \A t \in SeqTimers : t.gen = seqGen
  /\ (ev.op = "seqDrain" /\ ev.wasPlaying) => ev.gen = seqGen

\* --- C8
\* C8: after cancelSequencePlayback, no stop or drain callback of the cancelled
\* playback fires.
C8_NoCallbackAfterCancel ==
  ~( seqCancelled /\ ev.op \in {"seqStop", "seqDrain"} /\ ev.gen = seqGen )

\* --- C9
\* C9: cancelSequencePlayback leaves the queue empty, no sequence timer pending
\* and isSeqPlaying false, and a second cancel changes nothing.
C9_CancelDiscards ==
  ev.op = "cancel" =>
    /\ seqBuffer = <<>>
    /\ SeqTimers = {}
    /\ ~isSeqPlaying
    /\ cancelSequencePlayback(Cur) = Cur

\* --- C10
CadenceTimers(tm) == SelectSeq(tm, LAMBDA t : t.kind = "cadence")

\* C10: the stop button's cancel leaves the engine as it was: the engine's
\* fields, the live oscillators, the gate and the pending cadence timer.
C10_CancelLeavesEngine ==
  [][ CancelSequence =>
        /\ eng' = eng
        /\ live' = live
        /\ gates' = gates
        /\ CadenceTimers(timers') = CadenceTimers(timers) ]_vars

\* a playing sequence was cancelled and its tone is still sounding
C10_Witness ==
  /\ ev.op = "cancel"
  /\ ev.wasPlaying
  /\ eng.isStarted
  /\ live # {}

\* --- C11
\* the gate of the active tone
Gate == CHOOSE g \in gates : g.tone = eng.toneGain

\* the pending cadence timers of the active tone
ActiveCadence == { t \in Range(timers) : t.kind = "cadence" /\ t.id = eng.cadenceTimeoutId }

\* while '/' is active exactly one toggle is pending, due within 250 ms, and it
\* will set the gate to the opposite of its present value; the tone starts On
CadenceShape ==
  eng.currentKey = "/" =>
    /\ Cardinality(ActiveCadence) = 1
    /\ \A t \in ActiveCadence :
         /\ t.onMs = 250 /\ t.offMs = 250
         /\ t.left <= 250
         /\ Gate.value = IF t.isOn THEN 0 ELSE 1
         /\ ev.op = "cadence" => t.left = 250
         /\ (ev.wasKey # "/" \/ Did("keyStarted", "manual") \/ Did("keyStarted", "seq"))
              => (t.left = 250 /\ Gate.value = 1)

\* C11: while '/' is the active tone its gate cycles On, Off, On, ...: the gate
\* is 1 from the start, every toggle flips it and schedules the next toggle 250
\* ms later, and a toggle is pending for as long as the tone is active.
C11_CadenceCycle ==
  [][ /\ CadenceShape'
      /\ (FireCadence /\ eng.currentKey = "/") =>
           /\ eng'.currentKey = "/"
           /\ \A g \in gates : \A h \in gates' : h.value = 1 - g.value ]_vars

\* the cadence is back On after one full cycle
C11_Witness ==
  /\ eng.currentKey = "/"
  /\ ev.op = "cadence"
  /\ \E g \in gates : g.value = 1

\* --- C12
\* C12: every pending toggle belongs to the active tone, which is '/'; a toggle
\* that fires acts on the tone it was scheduled for; the gate of a tone
\* without cadence is 1.
C12_ToggleBoundToTone ==
  /\ \A t \in Range(timers) :
       t.kind = "cadence" =>
         /\ eng.currentKey = "/"
         /\ t.tone = eng.toneGain
         /\ t.id = eng.cadenceTimeoutId
  /\ ev.op = "cadence" => (ev.tone = ev.wasTone /\ ev.wasKey = "/")
  /\ eng.currentKey \notin {Null, "/"} => \A g \in gates : g.value = 1

\* the cadenced tone was replaced by a tone without cadence
C12_Witness ==
  /\ ev.wasKey = "/"
  /\ eng.currentKey \notin {Null, "/"}
  /\ gates # {}

\* --- C13
\* the keypad, row by row, and the standard frequency of each row and column
Keypad == << <<"1","2","3">>, <<"4","5","6">>, <<"7","8","9">>, <<"*","0","#">> >>
RowHz == << 697, 770, 852, 941 >>
ColumnHz == << 1209, 1336, 1477 >>
DtmfKeys == {"0","1","2","3","4","5","6","7","8","9","#"}

\* the oscillators of the active tone, as (osc, freq) pairs
Sounding == { <<o.osc, o.freq>> : o \in { x \in live : x.tone = eng.oscA } }

\* C13: under the engine's preset every digit and '#' has the standard pair of
\* its keypad row and column, not continuous and without cadence; the pairs
\* are pairwise distinct; and an active DTMF key sounds exactly that pair.
C13_DtmfTable ==
  /\ \A r \in 1..4 : \A c \in 1..3 :
       Keypad[r][c] \in DtmfKeys =>
         getFrequenciesForKey(Keypad[r][c], eng.dialPreset)
           = << [a |-> RowHz[r], b |-> ColumnHz[c], isContinuous |-> FALSE, cadence |-> NoCadence] >>
  /\ \A k1 \in DtmfKeys : \A k2 \in DtmfKeys \ {k1} :
       LET s1 == getFrequenciesForKey(k1, eng.dialPreset)[1]
           s2 == getFrequenciesForKey(k2, eng.dialPreset)[1]
       IN <<s1.a, s1.b>> # <<s2.a, s2.b>>
  /\ \A r \in 1..4 : \A c \in 1..3 :
       (eng.currentKey = Keypad[r][c] /\ eng.currentKey \in DtmfKeys) =>
         /\ Sounding = { <<"A", RowHz[r]>>, <<"B", ColumnHz[c]>> }
         /\ eng.cadenceTimeoutId = 0

\* '#' sounds under the jp preset
C13_Witness ==
  /\ eng.dialPreset = "jp"
  /\ eng.currentKey = "#"
  /\ Sounding = { <<"A", 941>>, <<"B", 1477>> }

\* --- C14
\* symbols a lookup can be asked for: the keys and two that are none
Symbols == validKeys \cup {"a", "x"}

\* C14: '*' is the dial tone, 350 + 440 Hz under us and 400 Hz alone under jp,
\* continuous under both; no other symbol's lookup depends on the preset; and
\* an active '*' sounds the dial tone of the engine's present preset.
C14_DialTone ==
  /\ getFrequenciesForKey("*", "us")
       = << [a |-> 350, b |-> 440, isContinuous |-> TRUE, cadence |-> NoCadence] >>
  /\ getFrequenciesForKey("*", "jp")
       = << [a |-> 400, b |-> 0, isContinuous |-> TRUE, cadence |-> NoCadence] >>
  /\ \A k \in Symbols \ {"*"} : getFrequenciesForKey(k, "us") = getFrequenciesForKey(k, "jp")
  /\ eng.currentKey = "*" =>
       /\ Sounding = IF eng.dialPreset = "jp" THEN { <<"A", 400>> }
                     ELSE { <<"A", 350>>, <<"B", 440>> }
       /\ eng.cadenceTimeoutId = 0

\* the preset was switched to jp while the dial tone was sounding
C14_Witness ==
  /\ ev.op = "preset"
  /\ ev.wasKey = "*"
  /\ eng.dialPreset = "jp"
  /\ Sounding = { <<"A", 400>> }

\* --- C15
\* C15: whenever a lookup finds a spec, a cadence implies not continuous; '/'
\* is the only key with a cadence, and it is 480 + 620 Hz, 250 ms on and 250 ms
\* off under both presets; an active '/' sounds that pair with such a toggle
\* pending, and no other key has a toggle pending.
C15_CadenceSpec ==
  /\ \A k \in Symbols : \A p \in Presets :
       LET found == getFrequenciesForKey(k, p) IN
       found # NoSpec =>
         /\ found[1].cadence # NoCadence => ~found[1].isContinuous
         /\ found[1].cadence # NoCadence <=> k = "/"
  /\ \A p \in Presets :
       getFrequenciesForKey("/", p)
         = << [a |-> 480, b |-> 620, isContinuous |-> FALSE,
               cadence |-> << [onMs |-> 250, offMs |-> 250] >>] >>
  /\ eng.currentKey = "/" =>
       /\ Sounding = { <<"A", 480>>, <<"B", 620>> }
       /\ \E t \in Range(timers) : t.kind = "cadence" /\ t.onMs = 250 /\ t.offMs = 250
  /\ eng.currentKey # "/" => eng.cadenceTimeoutId = 0

\* the busy tone is in its cadence under the jp preset
C15_Witness ==
  /\ eng.dialPreset = "jp"
  /\ eng.currentKey = "/"
  /\ ev.op = "cadence"

\* --- C16
\* C16: a start with a symbol the lookup does not know leaves the engine as it
\* was: its fields, the live oscillators, the gate and the cadence timer.
C16_UnknownKeyNoOp ==
  [][ \A k \in PointerKeys :
        (PointerDown(k) /\ getFrequenciesForKey(k, eng.dialPreset) = NoSpec) =>
          /\ eng' = eng
          /\ live' = live
          /\ gates' = gates
          /\ CadenceTimers(timers') = CadenceTimers(timers) ]_vars

\* an unknown symbol was pressed while the busy tone was in its cadence
C16_Witness ==
  /\ ev.op = "pointerdown"
  /\ getFrequenciesForKey(ev.key, eng.dialPreset) = NoSpec
  /\ eng.currentKey = "/"
  /\ eng.cadenceTimeoutId # 0
  /\ live # {}

Popped ==
  LET ps == SelectSeq(ev.out, LAMBDA e : e.n = "popped")
  IN [ i \in 1..Len(ps) |-> ps[i].key ]

\* C18: with timers firing and no further input the player ends up Idle and
\* stays Idle; it leaves Playing only with the queue exhausted (there is no
\* cancel in this specification); and every drain step that shifts the queue
\* removes exactly one symbol, the front one.
C18_Terminates ==
  /\ <>[](~isSeqPlaying)
  /\ [][ /\ (isSeqPlaying /\ ~isSeqPlaying') =>
              (seqBuffer' = <<>> /\ Did("idle", "seq")')
         /\ ev'.op = "seqDrain" => seqBuffer = Popped' \o seqBuffer'
         /\ ev'.op = "play" => seqText' = Popped' \o seqBuffer' ]_vars

\* a playback that skipped a symbol has reached Idle
C18_Witness ==
  /\ SeqDone
  /\ ~isSeqPlaying
  /\ Len(Recognized(seqText)) < Len(seqText)
  /\ Len(Recognized(seqText)) > 1

\* --- C19
\* the per-tone stop timers of the sequence player that are still pending
StopTimers == { t \in Range(timers) : t.kind = "seqStop" }

\* C19: when the sequence player reports idle by queue exhaustion, no tone it
\* started is still sounding and none of its per-tone stop timers is pending,
\* after any interleaving of playSequence, cancelSequence and timer callbacks.
C19_IdleIsQuiet ==
  Did("idle", "seq") => (live = {} /\ gates = {} /\ StopTimers = {})

\* --- C20
\* C20: playSequence with empty text causes no transition: isPlaying, the
\* queue and the pending timers are as they were, in a playback and from Idle.
C20_EmptyTextNoOp ==
  [][ PlaySequence(<<>>) =>
        UNCHANGED << isSeqPlaying, seqBuffer, seqTimer, timers, eng, live, gates >> ]_vars

====
